---- MODULE Spec2Model ----
(***************************************************************************)
(* Matching and confidence-scoring core of the music collection manager:   *)
(*   - ReleaseVerifier.normalize_title, ArtistMatcher.normalize_name       *)
(*   - ReleaseVerifier.match_releases, ReleaseVerifier.calculate_confidence*)
(*   - MusicMatcher.find_best_match and its scoring helpers                *)
(*   - the services' find_best_match and the matchers' create_candidates    *)
(*   - AlbumMatchingReport.normalize_album_name                             *)
(*                                                                         *)
(* A Python str is a sequence of characters.  A character is a TLA+ string *)
(* of length one, except for two code points that are written by name:     *)
(* "U+0130" (LATIN CAPITAL LETTER I WITH DOT ABOVE) and "U+0307"           *)
(* (COMBINING DOT ABOVE).  A Python float that the code computes as a      *)
(* quotient of small integers is kept as the exact fraction <<num, den>>.  *)
(***************************************************************************)
EXTENDS Integers, Sequences, FiniteSets, TLC

----------------------------------------------------------------------------
(* Bounds of the model *)

\* longest input string handed to the normalizers
MaxLen == 4

\* longest list of known titles handed to match_releases
MaxKnown == 3

\* longest list of service titles handed to match_releases
MaxService == 2

\* longest list of matches handed to calculate_confidence
MaxMatches == 5

\* largest total_discogs handed to calculate_confidence
MaxTotal == 11

\* longest list of pool candidates handed to find_best_match
MaxCandidates == 3

\* largest distance between a target year and the year 2000
MaxYearDiff == 12

\* longest list of albums in a service's search results
MaxResults == 2

\* invocations each concurrent caller makes of its function
MaxCalls == 2

----------------------------------------------------------------------------
(* Characters and the str methods the code uses *)

UpperLetters ==
    <<"A","B","C","D","E","F","G","H","I","J","K","L","M","N","O","P","Q","R","S","T","U","V","W","X","Y","Z">>

LowerLetters ==
    <<"a","b","c","d","e","f","g","h","i","j","k","l","m","n","o","p","q","r","s","t","u","v","w","x","y","z">>

Digits ==
    <<"0","1","2","3","4","5","6","7","8","9">>

DottedCapitalI == "U+0130"

CombiningDot == "U+0307"

Range(f) == { f[k] : k \in DOMAIN f }

Max(S) == CHOOSE x \in S : \A y \in S : y <= x

Min(S) == CHOOSE x \in S : \A y \in S : x <= y

\* str.isspace() / the regex class \s, for the characters of the model
IsSpace(c) == c \in {" ", "\t"}

\* the regex class \w: alphanumerics (str.isalnum()) and the underscore;
\* a combining mark is not alphanumeric
IsWordChar(c) ==
    c \in Range(UpperLetters) \cup Range(LowerLetters) \cup Range(Digits) \cup {"_", DottedCapitalI}

\* str.lower() of one character: a string, since U+0130 lowers to two code points
LowerChar(c) ==
    IF c \in Range(UpperLetters)
    THEN << LowerLetters[CHOOSE k \in DOMAIN UpperLetters : UpperLetters[k] = c] >>
    ELSE IF c = DottedCapitalI THEN << "i", CombiningDot >>
    ELSE << c >>

RECURSIVE Lower(_)
\* str.lower()
Lower(s) == IF s = << >> THEN << >> ELSE LowerChar(Head(s)) \o Lower(Tail(s))

RECURSIVE Split(_)
\* str.split() without arguments: the maximal runs of non-whitespace characters
Split(s) ==
    IF s = << >> THEN << >>
    ELSE IF IsSpace(Head(s)) THEN Split(Tail(s))
    ELSE LET n == CHOOSE n \in 1..Len(s) :
                     /\ \A k \in 1..n : ~IsSpace(s[k])
                     /\ n = Len(s) \/ IsSpace(s[n + 1])
         IN  << SubSeq(s, 1, n) >> \o Split(SubSeq(s, n + 1, Len(s)))

RECURSIVE Join(_)
\* ' '.join(words)
Join(words) ==
    IF words = << >> THEN << >>
    ELSE IF Len(words) = 1 THEN Head(words)
    ELSE Head(words) \o << " " >> \o Join(Tail(words))

\* `p in s` for two strings
IsSubstring(p, s) ==
    \E i \in 0..(Len(s) - Len(p)) : SubSeq(s, i + 1, i + Len(p)) = p

\* re.sub(r'[^\w\s]', '', s)
RemoveSpecialChars(s) == SelectSeq(s, LAMBDA c : IsWordChar(c) \/ IsSpace(c))

\* re.sub(r'\s*<open>[^<close>]*<close>\s*$', '', s): the match must end the
\* string, so its closing character is the last non-blank character; it holds
\* no other closing character, so it opens after the closing character before
\* that one; the leftmost such match starts at the first opening character
\* there, with the whitespace in front of it.
StripTrailingGroup(s, open, close) ==
    LET e == Max({ k \in 1..Len(s) : ~IsSpace(s[k]) } \cup {0})
    IN  IF e = 0 \/ s[e] # close THEN s
        ELSE LET p     == Max({ k \in 1..(e - 1) : s[k] = close } \cup {0})
                 opens == { k \in (p + 1)..(e - 1) : s[k] = open }
             IN  IF opens = {} THEN s
                 ELSE LET i  == Min(opens)
                          st == Min({ k \in 1..i : \A m \in k..(i - 1) : IsSpace(s[m]) })
                      IN  SubSeq(s, 1, st - 1)

articles ==
    { <<"t","h","e">>, <<"a">>, <<"a","n">> }

\* re.sub(r'^(The|A|An)\s+', '', s, flags=re.IGNORECASE): an article at the
\* start of the string, whatever its case, followed by whitespace; the article
\* and all the whitespace after it are removed
StripLeadingArticle(s) ==
    LET found == { a \in articles :
                      /\ Len(s) > Len(a)
                      /\ Lower(SubSeq(s, 1, Len(a))) = a
                      /\ IsSpace(s[Len(a) + 1]) }
    IN  IF found = {} THEN s
        ELSE LET a == CHOOSE a \in found : TRUE
                 k == Min({ k \in (Len(a) + 2)..(Len(s) + 1) :
                               \A m \in (Len(a) + 1)..(k - 1) : IsSpace(s[m]) /\
                               (k = Len(s) + 1 \/ ~IsSpace(s[k])) })
             IN  SubSeq(s, k, Len(s))

----------------------------------------------------------------------------
(* Fractions: a float the code computes from small integers, kept exact *)

\* a > b, for fractions with positive denominators
RatGT(a, b) == a[1] * b[2] > b[1] * a[2]

RatEQ(a, b) == a[1] * b[2] = b[1] * a[2]

RatAdd(a, b) == << a[1] * b[2] + b[1] * a[2], a[2] * b[2] >>

----------------------------------------------------------------------------
(* difflib.SequenceMatcher(None, a, b).ratio(), for strings shorter than   *)
(* the 200 characters at which difflib starts to treat popular characters  *)
(* as junk                                                                 *)

\* the length of the longest common prefix of a[i..] and b[j..]
CommonPrefixLen(a, i, b, j) ==
    Max({ k \in 0..Min({Len(a) - i + 1, Len(b) - j + 1}) :
             SubSeq(a, i, i + k - 1) = SubSeq(b, j, j + k - 1) })

\* SequenceMatcher.find_longest_match: the longest block a[i..i+k-1] = b[j..j+k-1];
\* of the longest blocks the one that starts earliest in a, and of those the
\* one that starts earliest in b
find_longest_match(a, b) ==
    LET cp == [x \in 1..Len(a), y \in 1..Len(b) |-> CommonPrefixLen(a, x, b, y)]
        k  == Max({ cp[x, y] : x \in 1..Len(a), y \in 1..Len(b) } \cup {0})
        i  == Min({ x \in 1..Len(a) : \E y \in 1..Len(b) : cp[x, y] = k })
        j  == Min({ y \in 1..Len(b) : cp[i, y] = k })
    IN  IF a = << >> \/ b = << >> \/ k = 0
        THEN [i |-> 0, j |-> 0, size |-> 0]
        ELSE [i |-> i, j |-> j, size |-> k]

RECURSIVE MatchingSize(_, _)
\* the total size of SequenceMatcher.get_matching_blocks(): the longest
\* block, then the same to the left and to the right of it
MatchingSize(a, b) ==
    LET m == find_longest_match(a, b)
    IN  IF m.size = 0 THEN 0
        ELSE m.size
             + MatchingSize(SubSeq(a, 1, m.i - 1), SubSeq(b, 1, m.j - 1))
             + MatchingSize(SubSeq(a, m.i + m.size, Len(a)), SubSeq(b, m.j + m.size, Len(b)))

\* SequenceMatcher.ratio(): 2.0 * matches / length, and 1.0 for two empty strings
ratio(a, b) ==
    IF Len(a) + Len(b) = 0 THEN << 1, 1 >>
    ELSE << 2 * MatchingSize(a, b), Len(a) + Len(b) >>

----------------------------------------------------------------------------
(* NameNormalizer *)

skip_words ==
    { <<"t","h","e">>,
      <<"a">>,
      <<"a","n">>,
      <<"a","n","d">>,
      <<"&">>,
      <<"r","e","m","a","s","t","e","r","e","d">>,
      <<"d","e","l","u","x","e">>,
      <<"e","d","i","t","i","o","n">>,
      <<"e","x","p","a","n","d","e","d">>,
      <<"a","n","n","i","v","e","r","s","a","r","y">>,
      <<"r","e","i","s","s","u","e">>,
      <<"b","o","n","u","s">>,
      <<"t","r","a","c","k","s">>,
      <<"d","i","s","c">> }

\* ReleaseVerifier.normalize_title
normalize_title(title) ==
    LET t1    == StripTrailingGroup(title, "(", ")")
        t2    == StripTrailingGroup(t1, "[", "]")
        t3    == RemoveSpecialChars(t2)
        t4    == Lower(Join(Split(t3)))
        words == SelectSeq(Split(t4), LAMBDA w : w \notin skip_words)
    IN  Join(words)

\* ArtistMatcher.normalize_name
normalize_name(name) ==
    LET n1 == StripLeadingArticle(name)
        n2 == StripTrailingGroup(n1, "(", ")")
        n3 == RemoveSpecialChars(n2)
    IN  Lower(Join(Split(n3)))

----------------------------------------------------------------------------
(* ReleaseSetMatcher: ReleaseVerifier.match_releases                       *)
(*                                                                         *)
(* A dict is the sequence of its items [k, v] in insertion order.          *)

HasKey(d, key) == \E i \in DOMAIN d : d[i].k = key

DictGet(d, key) == d[CHOOSE i \in DOMAIN d : d[i].k = key].v

\* a dict whose known key keeps the value it has
DictSetFirstWins(d, key, value) ==
    IF HasKey(d, key) THEN d ELSE Append(d, [k |-> key, v |-> value])

\* a list of pairs in place of the dict: every title adds an item
DictSetAlwaysAppends(d, key, value) == Append(d, [k |-> key, v |-> value])

\* d[key] = value: a new key goes last, a known key keeps its place
DictSet(d, key, value) ==
    IF HasKey(d, key)
    THEN [i \in DOMAIN d |-> IF d[i].k = key THEN [k |-> key, v |-> value] ELSE d[i]]
    ELSE Append(d, [k |-> key, v |-> value])

RECURSIVE NormalizedDict(_, _)
\* {ReleaseVerifier.normalize_title(r): r for r in releases}, added to d
NormalizedDict(d, releases) ==
    IF releases = << >> THEN d
    ELSE NormalizedDict(DictSet(d, normalize_title(Head(releases)), Head(releases)),
                        Tail(releases))

ReleaseMatch(discogs_title, service_title, match_score, match_type) ==
    [discogs_title |-> discogs_title, service_title |-> service_title,
     match_score |-> match_score, match_type |-> match_type]

\* first pass: one 'exact' match for every key of normalized_discogs that is
\* a key of normalized_service
ExactPass(nd, ns) ==
    LET hits == SelectSeq(nd, LAMBDA e : HasKey(ns, e.k))
    IN  [i \in 1..Len(hits) |->
            ReleaseMatch(hits[i].v, DictGet(ns, hits[i].k), << 1, 1 >>, "exact")]

\* every known title left for the second pass, matched or not
UnmatchedDiscogsKeepsAll(nd, ms) == nd

\* the items of normalized_discogs whose original is no match's discogs_title
UnmatchedDiscogs(nd, ms) ==
    SelectSeq(nd, LAMBDA e : ~(\E i \in DOMAIN ms : ms[i].discogs_title = e.v))

\* every item of normalized_service, matched or not
UnmatchedServiceKeepsAll(ns, ms) == ns

\* the items of normalized_service whose original is no match's service_title
UnmatchedService(ns, ms) ==
    SelectSeq(ns, LAMBDA e : ~(\E i \in DOMAIN ms : ms[i].service_title = e.v))

\* the score of one pair of normalized titles: the similarity ratio, averaged
\* with the word overlap when both titles have words
FuzzyScore(norm_discogs, norm_service) ==
    LET r             == ratio(norm_discogs, norm_service)
        discogs_words == Range(Split(norm_discogs))
        service_words == Range(Split(norm_service))
        common        == Cardinality(discogs_words \cap service_words)
        smaller       == Min({Cardinality(discogs_words), Cardinality(service_words)})
    IN  IF discogs_words # {} /\ service_words # {}
        THEN << r[1] * smaller + common * r[2], 2 * r[2] * smaller >>
        ELSE r

\* a 60% threshold
FuzzyThresholdLowered == << 6, 10 >>

\* 70% threshold
FuzzyThreshold == << 7, 10 >>

RECURSIVE BestService(_, _, _, _)
\* the inner loop over unmatched_service from item i on: best is
\* [idx |-> position of best_match (0: None), score |-> best_score]
BestService(norm_discogs, us, i, best) ==
    IF i > Len(us) THEN best
    ELSE LET score == FuzzyScore(norm_discogs, us[i].k)
         IN  IF RatGT(score, best.score) /\ RatGT(score, FuzzyThreshold)
             THEN BestService(norm_discogs, us, i + 1, [idx |-> i, score |-> score])
             ELSE BestService(norm_discogs, us, i + 1, best)

\* one round of the second pass, for one item of unmatched_discogs: the
\* matches, with the fuzzy match of the item when there is one
FuzzyRound(ms, item, us) ==
    LET best == BestService(item.k, us, 1, [idx |-> 0, score |-> << 0, 1 >>])
    IN  IF best.idx # 0 /\ us[best.idx].v # << >>
        THEN Append(ms, ReleaseMatch(item.v, us[best.idx].v, best.score, "fuzzy"))
        ELSE ms

RECURSIVE FuzzyPass(_, _, _, _)
\* the second pass from item i of unmatched_discogs on
FuzzyPass(ms, ud, us, i) ==
    IF i > Len(ud) THEN ms
    ELSE FuzzyPass(FuzzyRound(ms, ud[i], us), ud, us, i + 1)

\* ReleaseVerifier.match_releases, run from its first line to its return
match_releases(discogs, service) ==
    LET nd    == NormalizedDict(<< >>, discogs)
        ns    == NormalizedDict(<< >>, service)
        exact == ExactPass(nd, ns)
    IN  FuzzyPass(exact, UnmatchedDiscogs(nd, exact), UnmatchedService(ns, exact), 1)

----------------------------------------------------------------------------
(* ReleaseSetMatcher: ReleaseVerifier.calculate_confidence *)

RECURSIVE Gcd(_, _)
Gcd(a, b) == IF b = 0 THEN a ELSE Gcd(b, a % b)

\* a fraction in lowest terms (the same number)
Reduced(a) == LET g == Gcd(a[1], a[2]) IN IF g = 0 THEN a ELSE << a[1] \div g, a[2] \div g >>

RECURSIVE SumScores(_)
\* sum(m.match_score for m in matches)
SumScores(ms) ==
    IF ms = << >> THEN << 0, 1 >>
    ELSE Reduced(RatAdd(Head(ms).match_score, SumScores(Tail(ms))))

\* the level before the special cases, asking HIGH for three matches
BaseLevelThreeMatches(n, total_discogs) ==
    IF 2 * n >= total_discogs /\ n >= 3 THEN "HIGH"
    ELSE IF 10 * n >= 3 * total_discogs \/ n >= 1 THEN "MEDIUM"
    ELSE "LOW"

\* the level before the special cases, MEDIUM by the percentage only
BaseLevelByPercentage(n, total_discogs) ==
    IF 2 * n >= total_discogs /\ n >= 2 THEN "HIGH"
    ELSE IF 10 * n >= 3 * total_discogs THEN "MEDIUM"
    ELSE "LOW"

\* the level before the special cases
BaseLevel(n, total_discogs) ==
    IF 2 * n >= total_discogs /\ n >= 2 THEN "HIGH"
    ELSE IF 10 * n >= 3 * total_discogs \/ n >= 1 THEN "MEDIUM"
    ELSE "LOW"

\* the special cases without the single perfect match
SpecialLevelManyOnly(ms, total_discogs, base) ==
    IF Len(ms) >= 5 THEN "HIGH" ELSE base

\* the special cases, with "many" one match later
SpecialLevelOffByOne(ms, total_discogs, base) ==
    IF Len(ms) > 5 THEN "HIGH"
    ELSE IF total_discogs = 1 /\ Len(ms) = 1 /\ RatGT(ms[1].match_score, << 9, 10 >>) THEN "HIGH"
    ELSE base

\* the special cases: many matches, or a single perfect match
SpecialLevel(ms, total_discogs, base) ==
    IF Len(ms) >= 5 THEN "HIGH"
    ELSE IF total_discogs = 1 /\ Len(ms) = 1 /\ RatGT(ms[1].match_score, << 9, 10 >>) THEN "HIGH"
    ELSE base

\* the early return taken only when there are no matches either
NoReleasesAndNoMatches(ms, total_discogs) == total_discogs = 0 /\ ms = << >>

\* line 113: if total_discogs == 0
NoReleases(ms, total_discogs) == total_discogs = 0

\* ReleaseVerifier.calculate_confidence: (confidence_score, confidence)
calculate_confidence(ms, total_discogs) ==
    IF NoReleases(ms, total_discogs) THEN [score |-> << 0, 1 >>, level |-> "NO_RELEASES"]
    ELSE LET n     == Len(ms)
             total == SumScores(ms)
             \* match_percentage * avg_match_score
             confidence_score ==
                 IF n > 0
                 THEN Reduced(<< n * total[1], total_discogs * (total[2] * n) >>)
                 ELSE << 0, 1 >>
         IN  [score |-> confidence_score,
              level |-> SpecialLevel(ms, total_discogs, BaseLevel(n, total_discogs))]

----------------------------------------------------------------------------
(* CandidateScorer: MusicMatcher                                           *)
(*                                                                         *)
(* A MatchCandidate is a record.  None, where a field is Optional, is the  *)
(* value None below (no string of the model holds its token);              *)
(* is_compilation is "True", "False" or "None"; data is the part of the    *)
(* raw payload the matcher reads, data["attributes"]["isCompilation"], or, *)
(* for a candidate an adapter made, the search result record itself.       *)

None == << "None" >>

\* bool(x) of an Optional[str]
Truthy(x) == x # None /\ x # << >>

S_album == <<"a","l","b","u","m">>

S_single == <<"s","i","n","g","l","e">>

S_compilation == <<"c","o","m","p","i","l","a","t","i","o","n">>

S_appears_on == <<"a","p","p","e","a","r","s","_","o","n">>

S_apple_music == <<"a","p","p","l","e","_","m","u","s","i","c">>

compilation_indicators ==
    { <<"b","e","s","t"," ","o","f">>,
      <<"g","r","e","a","t","e","s","t"," ","h","i","t","s">>,
      <<"c","o","l","l","e","c","t","i","o","n">>,
      <<"a","n","t","h","o","l","o","g","y">>,
      <<"v","e","r","y"," ","v","e","r","y"," ","b","e","s","t">>,
      <<"e","s","s","e","n","t","i","a","l">>,
      <<"h","i","t","s">>,
      <<"c","o","m","p","l","e","t","e">> }

compilation_words ==
    { <<"b","e","s","t"," ","o","f">>,
      <<"g","r","e","a","t","e","s","t"," ","h","i","t","s">>,
      <<"c","o","l","l","e","c","t","i","o","n">>,
      <<"a","n","t","h","o","l","o","g","y">>,
      <<"e","s","s","e","n","t","i","a","l">>,
      <<"h","i","t","s">>,
      <<"c","o","m","p","l","e","t","e">>,
      <<"v","e","r","y"," ","v","e","r","y"," ","b","e","s","t">> }

reissue_indicators ==
    { <<"r","e","m","a","s","t","e","r">>,
      <<"r","e","i","s","s","u","e">>,
      <<"d","e","l","u","x","e">>,
      <<"e","x","p","a","n","d","e","d">>,
      <<"a","n","n","i","v","e","r","s","a","r","y">>,
      <<"s","p","e","c","i","a","l"," ","e","d","i","t","i","o","n">>,
      <<"b","o","n","u","s">> }

\* str.strip()
Strip(s) ==
    LET keep == { k \in 1..Len(s) : ~IsSpace(s[k]) }
    IN  IF keep = {} THEN << >> ELSE SubSeq(s, Min(keep), Max(keep))

\* release_date.split("-")[0]
FirstDashField(s) ==
    LET dashes == { k \in 1..Len(s) : s[k] = "-" }
    IN  IF dashes = {} THEN s ELSE SubSeq(s, 1, Min(dashes) - 1)

\* whether int(s) parses: blanks around, a sign, digits, single underscores
\* between digits
IsIntLiteral(s) ==
    LET t == Strip(s)
        u == IF t # << >> /\ t[1] \in { "+", "-" } THEN Tail(t) ELSE t
    IN  /\ u # << >>
        /\ \A k \in 1..Len(u) : u[k] \in Range(Digits) \cup { "_" }
        /\ u[1] # "_" /\ u[Len(u)] # "_"
        /\ \A k \in 1..(Len(u) - 1) : ~(u[k] = "_" /\ u[k + 1] = "_")

DigitValue(c) == (CHOOSE k \in DOMAIN Digits : Digits[k] = c) - 1

RECURSIVE DigitsValue(_, _)
DigitsValue(u, acc) ==
    IF u = << >> THEN acc
    ELSE IF Head(u) = "_" THEN DigitsValue(Tail(u), acc)
    ELSE DigitsValue(Tail(u), 10 * acc + DigitValue(Head(u)))

\* int(s), for a string that parses
IntValue(s) ==
    LET t == Strip(s)
    IN  IF t[1] = "-" THEN 0 - DigitsValue(Tail(t), 0)
        ELSE IF t[1] = "+" THEN DigitsValue(Tail(t), 0)
        ELSE DigitsValue(t, 0)

Abs(x) == IF x < 0 THEN 0 - x ELSE x

\* the year score with a difference of 10 counted as significantly different
_calculate_year_score_far_at_ten(release_date, target_year) ==
    IF ~IsIntLiteral(FirstDashField(release_date)) THEN 0
    ELSE LET album_year == IntValue(FirstDashField(release_date))
             year_diff  == Abs(target_year - album_year)
         IN  IF year_diff = 0 THEN 3
             ELSE IF year_diff <= 2 THEN 1
             ELSE IF year_diff >= 10 THEN -2
             ELSE 0

\* MusicMatcher._calculate_year_score
_calculate_year_score(release_date, target_year) ==
    IF ~IsIntLiteral(FirstDashField(release_date)) THEN 0  \* except ValueError
    ELSE LET album_year == IntValue(FirstDashField(release_date))
             year_diff  == Abs(target_year - album_year)
         IN  IF year_diff = 0 THEN 3
             ELSE IF year_diff <= 2 THEN 1
             ELSE IF year_diff > 10 THEN -2
             ELSE 0

\* a key a dict of the payload does not have
Absent == << "Absent" >>

\* d.get(key, default), for the value v the dict has under key
Get(v, default) == IF v = Absent THEN default ELSE v

\* the same for the isCompilation flag: "True", "False", "1" (a truthy value
\* that is not True) or "Absent"
GetFlag(flag, default) == IF flag = "Absent" THEN default ELSE flag

\* lines 138-139: whether data.get("attributes", {}).get("isCompilation", False)
\* is truthy
PayloadIsCompilation(data) ==
    IF "attributes" \in DOMAIN data
    THEN GetFlag(data.attributes.isCompilation, "False") \in { "True", "1" }
    ELSE IF "isCompilation" \in DOMAIN data THEN data.isCompilation
    ELSE FALSE

\* line 137: candidate.service_name.lower() == "apple_music"
IsAppleMusic(service_name) == Lower(service_name) = S_apple_music

\* MusicMatcher._detect_compilation
_detect_compilation(candidate) ==
    \/ candidate.is_compilation = "True"
    \/ /\ IsAppleMusic(candidate.service_name)
       /\ PayloadIsCompilation(candidate.data)
    \/ /\ Truthy(candidate.album_type)
       /\ Lower(candidate.album_type) \in { S_compilation, S_appears_on }
    \/ \E word \in compilation_words : IsSubstring(word, Lower(candidate.album_name))

\* the artist term: 10, 5, or 0 when the artist gate rejects the candidate
ArtistPoints(artist_name_lower, target_artist_lower) ==
    IF target_artist_lower = artist_name_lower THEN 10
    ELSE IF \/ IsSubstring(target_artist_lower, artist_name_lower)
            \/ IsSubstring(artist_name_lower, target_artist_lower) THEN 5
    ELSE 0

\* the title term
TitlePoints(album_name_lower, target_album_lower) ==
    IF target_album_lower = album_name_lower THEN 10
    ELSE IF IsSubstring(target_album_lower, album_name_lower) THEN 7
    ELSE IF IsSubstring(album_name_lower, target_album_lower) THEN 5
    ELSE 0

\* the album type term with a single penalized like a compilation
TypePointsSingleAsCompilation(album_type) ==
    IF ~Truthy(album_type) THEN 0
    ELSE IF Lower(album_type) = S_album THEN 3
    ELSE IF Lower(album_type) \in { S_compilation, S_appears_on, S_single } THEN -3
    ELSE 0

\* the album type term with a single's penalty doubled
TypePointsSinglePenaltyDoubled(album_type) ==
    IF ~Truthy(album_type) THEN 0
    ELSE IF Lower(album_type) = S_album THEN 3
    ELSE IF Lower(album_type) \in { S_compilation, S_appears_on } THEN -3
    ELSE IF Lower(album_type) = S_single THEN -10
    ELSE 0

\* the album type term
TypePoints(album_type) ==
    IF ~Truthy(album_type) THEN 0
    ELSE IF Lower(album_type) = S_album THEN 3
    ELSE IF Lower(album_type) \in { S_compilation, S_appears_on } THEN -3
    ELSE IF Lower(album_type) = S_single THEN -5
    ELSE 0

\* whether _calculate_match_score raises (AttributeError: None has no lower)
ScoreRaises(candidate, target_artist_lower) ==
    \/ candidate.artist_name = None
    \/ /\ ArtistPoints(Lower(candidate.artist_name), target_artist_lower) # 0
       /\ \/ candidate.album_name = None
          \/ candidate.is_compilation # "True" /\ candidate.service_name = None

\* lines 77-128 of _calculate_match_score: the terms after the artist gate
ScoreTerms(candidate, target_artist_lower, target_album_lower, target_year) ==
    LET artist_name_lower == Lower(candidate.artist_name)
        album_name_lower  == Lower(candidate.album_name)
        is_compilation    == _detect_compilation(candidate)
    IN  ArtistPoints(artist_name_lower, target_artist_lower)
        + TitlePoints(album_name_lower, target_album_lower)
        + TypePoints(candidate.album_type)
        + (IF is_compilation THEN -3 ELSE 0)
        + (IF \E indicator \in compilation_indicators :
                  IsSubstring(indicator, album_name_lower) THEN -5 ELSE 0)
        + (IF target_year # 0 /\ Truthy(candidate.release_date)
           THEN _calculate_year_score(candidate.release_date, target_year) ELSE 0)
        + (IF \E indicator \in reissue_indicators :
                  IsSubstring(indicator, album_name_lower) THEN -1 ELSE 0)
        + (IF /\ target_artist_lower = artist_name_lower
              /\ target_album_lower = album_name_lower
              /\ ~is_compilation THEN 5 ELSE 0)

\* the score without the artist gate's return 0
_calculate_match_score_no_gate(candidate, target_artist_lower, target_album_lower, target_year) ==
    ScoreTerms(candidate, target_artist_lower, target_album_lower, target_year)

\* MusicMatcher._calculate_match_score, for a candidate it does not raise on;
\* target_year is 0 for None (both are falsy, and the year is read only then)
_calculate_match_score(candidate, target_artist_lower, target_album_lower, target_year) ==
    IF ArtistPoints(Lower(candidate.artist_name), target_artist_lower) = 0
    THEN 0  \* no artist match is a deal breaker
    ELSE ScoreTerms(candidate, target_artist_lower, target_album_lower, target_year)

\* every candidate with a positive score replaces the best one
ImprovesOnZero(score, best) == score > 0

\* a candidate that ties with the best one replaces it
ImprovesOrTies(score, best) == score >= best

\* line 50: if score > best_score
Improves(score, best) == score > best

RECURSIVE BestCandidate(_, _, _, _, _, _)
\* the loop of find_best_match from candidate i on: best is
\* [match |-> position of best_match (0: None), score |-> best_score]
BestCandidate(cs, artist_lower, album_lower, year, i, best) ==
    IF i > Len(cs) THEN best
    ELSE LET score == _calculate_match_score(cs[i], artist_lower, album_lower, year)
         IN  BestCandidate(cs, artist_lower, album_lower, year, i + 1,
                           IF Improves(score, best.score)
                           THEN [match |-> i, score |-> score] ELSE best)

\* MusicMatcher.find_best_match, run from its first line to its end: whether
\* it raised, and the position in cs of the candidate it returned (0: None)
find_best_match(cs, artist, album, year) ==
    IF cs = << >> THEN [raised |-> FALSE, match |-> 0]
    ELSE IF \E i \in DOMAIN cs : ScoreRaises(cs[i], Lower(artist))
    THEN [raised |-> TRUE, match |-> 0]
    ELSE [raised |-> FALSE,
          match  |-> BestCandidate(cs, Lower(artist), Lower(album), year, 1,
                                   [match |-> 0, score |-> 0]).match]

----------------------------------------------------------------------------
(* AlbumMatchingReport: normalize_album_name with the default filters *)

S_and == <<"a","n","d">>

\* AlbumMatchingReport._get_default_filter_config, the "filters" part
_get_default_filter_config ==
    [filters |->
        [common_variations |->
             << <<"d","e","l","u","x","e"," ","e","d","i","t","i","o","n">>,
                <<"d","e","l","u","x","e">>,
                <<"r","e","m","a","s","t","e","r">>,
                <<"r","e","m","a","s","t","e","r","e","d">>,
                <<"s","p","e","c","i","a","l"," ","e","d","i","t","i","o","n">>,
                <<"e","x","p","a","n","d","e","d"," ","e","d","i","t","i","o","n">>,
                <<"a","n","n","i","v","e","r","s","a","r","y"," ","e","d","i","t","i","o","n">>,
                <<"c","o","l","l","e","c","t","o","r","'","s"," ","e","d","i","t","i","o","n">>,
                <<"l","i","m","i","t","e","d"," ","e","d","i","t","i","o","n">> >>,
         punctuation_ignore |->
             << <<":">>, <<";">>, <<"!">>, <<"?">>, <<".">>, <<",">>, <<"'">>,
                <<"\"">>, <<"-">>, <<"_">>, <<"&">>, S_and >>,
         parentheses_content |-> TRUE,
         brackets_content |-> TRUE,
         case_sensitive |-> FALSE,
         normalize_spaces |-> TRUE,
         remove_leading_articles |-> << <<"t","h","e">>, <<"a">>, <<"a","n">> >>]]

RECURSIVE RemoveGroups(_, _, _)
\* re.sub(r'\([^)]*\)', '', s), and the same for brackets: every stretch
\* from an opening character to the next closing one
RemoveGroups(s, open, close) ==
    IF s = << >> THEN << >>
    ELSE IF Head(s) = open /\ \E k \in 2..Len(s) : s[k] = close
    THEN LET k == Min({ j \in 2..Len(s) : s[j] = close })
         IN  RemoveGroups(SubSeq(s, k + 1, Len(s)), open, close)
    ELSE << Head(s) >> \o RemoveGroups(Tail(s), open, close)

\* whether \bword\b matches at position i of s
WordAt(s, word, i) ==
    /\ i + Len(word) - 1 <= Len(s)
    /\ SubSeq(s, i, i + Len(word) - 1) = word
    /\ i = 1 \/ ~IsWordChar(s[i - 1])
    /\ i + Len(word) - 1 = Len(s) \/ ~IsWordChar(s[i + Len(word)])

RECURSIVE SubWord(_, _, _, _)
\* re.sub(r'\b' + re.escape(word) + r'\b', repl, s), from position i on
SubWord(s, word, repl, i) ==
    IF i > Len(s) THEN << >>
    ELSE IF WordAt(s, word, i) THEN repl \o SubWord(s, word, repl, i + Len(word))
    ELSE << s[i] >> \o SubWord(s, word, repl, i + 1)

RECURSIVE RemoveVariations(_, _)
\* lines 101-105: the loop over common_variations
RemoveVariations(s, common_variations) ==
    IF common_variations = << >> THEN s
    ELSE RemoveVariations(SubWord(s, Lower(Head(common_variations)), << >>, 1),
                          Tail(common_variations))

RECURSIVE RemovePunctuation(_, _)
\* lines 107-113: the loop over punctuation_ignore, in the list's order
RemovePunctuation(s, punctuation_ignore) ==
    IF punctuation_ignore = << >> THEN s
    ELSE LET punct == Head(punctuation_ignore)
         IN  RemovePunctuation(
                 IF punct = S_and THEN SubWord(s, S_and, << "&" >>, 1)
                 ELSE SelectSeq(s, LAMBDA c : << c >> # punct),
                 Tail(punctuation_ignore))

\* re.sub('^' + article + r'\s+', '', s)
RemoveLeadingArticle(s, article) ==
    IF /\ Len(s) > Len(article)
       /\ SubSeq(s, 1, Len(article)) = article
       /\ IsSpace(s[Len(article) + 1])
    THEN LET rest == { k \in (Len(article) + 1)..Len(s) : ~IsSpace(s[k]) }
         IN  IF rest = {} THEN << >> ELSE SubSeq(s, Min(rest), Len(s))
    ELSE s

RECURSIVE RemoveLeadingArticles(_, _)
\* lines 119-123: the loop over remove_leading_articles
RemoveLeadingArticles(s, leading_articles) ==
    IF leading_articles = << >> THEN s
    ELSE RemoveLeadingArticles(RemoveLeadingArticle(s, Lower(Head(leading_articles))),
                               Tail(leading_articles))

\* AlbumMatchingReport.normalize_album_name, self.filter_config being the
\* default one
normalize_album_name(album_name) ==
    IF ~Truthy(album_name) THEN << >>
    ELSE LET filters == _get_default_filter_config.filters
             n1 == IF ~filters.case_sensitive THEN Lower(album_name) ELSE album_name
             n2 == IF filters.parentheses_content THEN RemoveGroups(n1, "(", ")") ELSE n1
             n3 == IF filters.brackets_content THEN RemoveGroups(n2, "[", "]") ELSE n2
             n4 == RemoveVariations(n3, filters.common_variations)
             n5 == RemovePunctuation(n4, filters.punctuation_ignore)
             \* re.sub(r'\s+', ' ', normalized).strip()
             n6 == IF filters.normalize_spaces THEN Join(Split(n5)) ELSE n5
             n7 == RemoveLeadingArticles(n6, filters.remove_leading_articles)
         IN  Strip(n7)

----------------------------------------------------------------------------
(* State *)

VARIABLES
    n_pc,       \* normalizer caller: "input", "title", "title2", "name", "name2",
                \* "title raised", "name raised"
    n_input,    \* the string handed to the normalizer
    n_out,      \* the normalizer's result
    n_out2,     \* the result of normalizing n_out again
    m_pc,       \* match_releases: "start", "normalized", "exact", "fuzzy", "returned", "verified"
    discogs_releases,    \* argument: the known titles
    service_releases,    \* argument: the service's titles
    normalized_discogs,  \* dict: normalized title -> original known title
    normalized_service,  \* dict: normalized title -> original service title
    matches,             \* list of ReleaseMatch
    unmatched_discogs,   \* dict: the known titles left for the second pass
    unmatched_service,   \* dict: the service titles left for the second pass
    f_idx,               \* the item of unmatched_discogs the second pass is at
    m_confidence,        \* the caller's calculate_confidence(matches, len(known))
    c_pc,       \* calculate_confidence caller: "call", "done"
    c_matches,  \* argument: the matches
    c_total,    \* argument: total_discogs
    c_result,   \* the result [score, level]
    c_prev,     \* the level returned for c_matches without its last match
    s_pc,       \* find_best_match: "call", "loop", "returned", "raised"
    candidates,     \* argument: list of MatchCandidate
    target_artist,  \* argument
    target_album,   \* argument
    target_year,    \* kwargs.get("year"); 0 for None
    s_idx,          \* the candidate the loop is at
    best_match,     \* position in candidates of best_match; 0 for None
    best_score,
    calls,          \* per function, the invocations made after the first one
    w_pc,           \* a service's find_best_match: "call", "matching", "returned",
                    \* "raised"
    w_service,      \* the service: "Apple Music" or "Spotify"
    search_results, \* argument: the albums of the service's search results
    w_result,       \* the record the service returns; None for None
    r_pc,           \* analyze_release_matching: "start", "discogs", "normalized"
    r_discogs_title,          \* the release's Discogs title
    r_apple_music_title,      \* the release's Apple Music title, or None
    r_discogs_normalized,     \* normalize_album_name of the Discogs title
    r_apple_music_normalized  \* that of the Apple Music title, or None

n_vars == << n_pc, n_input, n_out, n_out2 >>

m_vars == << m_pc, discogs_releases, service_releases, normalized_discogs,
             normalized_service, matches, unmatched_discogs, unmatched_service,
             f_idx, m_confidence >>

c_vars == << c_pc, c_matches, c_total, c_result, c_prev >>

s_vars == << s_pc, candidates, target_artist, target_album, target_year,
             s_idx, best_match, best_score >>

w_vars == << w_pc, w_service, search_results, w_result >>

r_vars == << r_pc, r_discogs_title, r_apple_music_title, r_discogs_normalized,
             r_apple_music_normalized >>

vars == << n_vars, m_vars, c_vars, s_vars, calls, w_vars, r_vars >>

\* the three entry points a caller can have in flight at the same time
Functions == { "match_releases", "calculate_confidence", "find_best_match" }

NoCalls == [f \in Functions |-> 0]

NoResult == [score |-> << 0, 1 >>, level |-> "none"]

NormIdle ==
    /\ n_pc = "idle"
    /\ n_input = << >>
    /\ n_out = << >>
    /\ n_out2 = << >>

MatchIdle ==
    /\ m_pc = "idle"
    /\ discogs_releases = << >>
    /\ service_releases = << >>
    /\ normalized_discogs = << >>
    /\ normalized_service = << >>
    /\ matches = << >>
    /\ unmatched_discogs = << >>
    /\ unmatched_service = << >>
    /\ f_idx = 0
    /\ m_confidence = NoResult

ConfIdle ==
    /\ c_pc = "idle"
    /\ c_matches = << >>
    /\ c_total = 0
    /\ c_result = NoResult
    /\ c_prev = "none"

ScorerIdle ==
    /\ s_pc = "idle"
    /\ candidates = << >>
    /\ target_artist = << >>
    /\ target_album = << >>
    /\ target_year = 0
    /\ s_idx = 0
    /\ best_match = 0
    /\ best_score = 0

ReportIdle ==
    /\ r_pc = "idle"
    /\ r_discogs_title = << >>
    /\ r_apple_music_title = None
    /\ r_discogs_normalized = << >>
    /\ r_apple_music_normalized = None

WrapperIdle ==
    /\ w_pc = "idle"
    /\ w_service = "none"
    /\ search_results = << >>
    /\ w_result = None

----------------------------------------------------------------------------
(* The normalizers applied to a string, and again to their own result *)

\* the characters input strings are drawn from: letters that spell the stop
\* words "a" and "an" and the articles "A" and "An", an upper-case letter,
\* whitespace, both bracket pairs, punctuation, the underscore, and U+0130
Alphabet == { "a", "n", "A", " ", "(", ")", "[", "]", "-", "_", DottedCapitalI }

Strings(n) == UNION { [1..k -> Alphabet] : k \in 0..n }

\* re.sub(pattern, repl, string) raises TypeError when string is None
SubRaises(string) == string = None

InitNorm ==
    /\ n_pc = "input"
    /\ n_input \in Strings(MaxLen) \cup { None }
    /\ n_out = << >>
    /\ n_out2 = << >>
    /\ MatchIdle
    /\ ConfIdle
    /\ ScorerIdle
    /\ calls = NoCalls
    /\ WrapperIdle
    /\ ReportIdle

NormalizeTitle ==
    /\ n_pc = "input"
    /\ ~SubRaises(n_input)
    /\ n_out' = normalize_title(n_input)
    /\ n_pc' = "title"
    /\ UNCHANGED << n_input, n_out2, m_vars, c_vars, s_vars, calls, w_vars, r_vars >>

RenormalizeTitle ==
    /\ n_pc = "title"
    /\ n_out2' = normalize_title(n_out)
    /\ n_pc' = "title2"
    /\ UNCHANGED << n_input, n_out, m_vars, c_vars, s_vars, calls, w_vars, r_vars >>

NormalizeName ==
    /\ n_pc = "input"
    /\ ~SubRaises(n_input)
    /\ n_out' = normalize_name(n_input)
    /\ n_pc' = "name"
    /\ UNCHANGED << n_input, n_out2, m_vars, c_vars, s_vars, calls, w_vars, r_vars >>

RenormalizeName ==
    /\ n_pc = "name"
    /\ n_out2' = normalize_name(n_out)
    /\ n_pc' = "name2"
    /\ UNCHANGED << n_input, n_out, m_vars, c_vars, s_vars, calls, w_vars, r_vars >>

\* normalize_title, line 40: the first re.sub raises
NormalizeTitleRaises ==
    /\ n_pc = "input"
    /\ SubRaises(n_input)
    /\ n_pc' = "title raised"
    /\ UNCHANGED << n_input, n_out, n_out2, m_vars, c_vars, s_vars, calls, w_vars, r_vars >>

\* normalize_name, line 58: the first re.sub raises
NormalizeNameRaises ==
    /\ n_pc = "input"
    /\ SubRaises(n_input)
    /\ n_pc' = "name raised"
    /\ UNCHANGED << n_input, n_out, n_out2, m_vars, c_vars, s_vars, calls, w_vars, r_vars >>

NextNorm ==
    \/ NormalizeTitle
    \/ RenormalizeTitle
    \/ NormalizeName
    \/ RenormalizeName
    \/ NormalizeTitleRaises
    \/ NormalizeNameRaises

SpecNorm == InitNorm /\ [][NextNorm]_vars

----------------------------------------------------------------------------
(* match_releases on two title lists, then the caller's                    *)
(* calculate_confidence(matches, len(known_releases))                      *)

\* the titles the two lists are drawn from:
\*   "Ab" and "ab (x)" normalize to "ab" (a collision, and an exact match
\*   across the lists); "ab cd" and "ab ce" are each a fuzzy match of "ab"
\*   (score 11/14) and none of each other (13/20); "a" normalizes to ""
TitlePool ==
    { <<"A","b">>,
      <<"a","b"," ","(","x",")">>,
      <<"a","b"," ","c","d">>,
      <<"a","b"," ","c","e">>,
      <<"a">> }

TitleLists(n) == UNION { [1..k -> TitlePool] : k \in 0..n }

InitMatch ==
    /\ m_pc = "start"
    /\ discogs_releases \in TitleLists(MaxKnown)
    /\ service_releases \in TitleLists(MaxService)
    /\ normalized_discogs = << >>
    /\ normalized_service = << >>
    /\ matches = << >>
    /\ unmatched_discogs = << >>
    /\ unmatched_service = << >>
    /\ f_idx = 0
    /\ m_confidence = NoResult
    /\ NormIdle
    /\ ConfIdle
    /\ ScorerIdle
    /\ calls = NoCalls
    /\ WrapperIdle
    /\ ReportIdle

\* the two dicts, with matches kept from the invocation before
NormalizeAllKeepsMatches ==
    /\ m_pc = "start"
    /\ normalized_discogs' = NormalizedDict(<< >>, discogs_releases)
    /\ normalized_service' = NormalizedDict(<< >>, service_releases)
    /\ m_pc' = "normalized"
    /\ UNCHANGED << discogs_releases, service_releases, matches, unmatched_discogs,
                    unmatched_service, f_idx, m_confidence, n_vars, c_vars, s_vars, calls, w_vars, r_vars >>

\* lines 59-63: matches = [], the two dicts
NormalizeAll ==
    /\ m_pc = "start"
    /\ matches' = << >>
    /\ normalized_discogs' = NormalizedDict(<< >>, discogs_releases)
    /\ normalized_service' = NormalizedDict(<< >>, service_releases)
    /\ m_pc' = "normalized"
    /\ UNCHANGED << discogs_releases, service_releases, unmatched_discogs,
                    unmatched_service, f_idx, m_confidence, n_vars, c_vars, s_vars, calls, w_vars, r_vars >>

\* lines 65-73: the first pass
ExactMatches ==
    /\ m_pc = "normalized"
    /\ matches' = matches \o ExactPass(normalized_discogs, normalized_service)
    /\ m_pc' = "exact"
    /\ UNCHANGED << discogs_releases, service_releases, normalized_discogs,
                    normalized_service, unmatched_discogs, unmatched_service,
                    f_idx, m_confidence, n_vars, c_vars, s_vars, calls, w_vars, r_vars >>

\* lines 75-79: what is left for the second pass
CollectUnmatched ==
    /\ m_pc = "exact"
    /\ unmatched_discogs' = UnmatchedDiscogs(normalized_discogs, matches)
    /\ unmatched_service' = UnmatchedService(normalized_service, matches)
    /\ f_idx' = 1
    /\ m_pc' = "fuzzy"
    /\ UNCHANGED << discogs_releases, service_releases, normalized_discogs,
                    normalized_service, matches, m_confidence, n_vars, c_vars, s_vars, calls, w_vars, r_vars >>

\* lines 81-106: one round of the outer loop of the second pass
FuzzyMatch ==
    /\ m_pc = "fuzzy"
    /\ f_idx <= Len(unmatched_discogs)
    /\ matches' = FuzzyRound(matches, unmatched_discogs[f_idx], unmatched_service)
    /\ f_idx' = f_idx + 1
    /\ UNCHANGED << m_pc, discogs_releases, service_releases, normalized_discogs,
                    normalized_service, unmatched_discogs, unmatched_service,
                    m_confidence, n_vars, c_vars, s_vars, calls, w_vars, r_vars >>

\* line 108: return matches
ReturnMatches ==
    /\ m_pc = "fuzzy"
    /\ f_idx > Len(unmatched_discogs)
    /\ m_pc' = "returned"
    /\ UNCHANGED << discogs_releases, service_releases, normalized_discogs,
                    normalized_service, matches, unmatched_discogs,
                    unmatched_service, f_idx, m_confidence, n_vars, c_vars, s_vars, calls, w_vars, r_vars >>

\* verify_artist_with_releases, lines 1314-1320: no known releases, and
\* match_releases is not called
VerifyNoReleases ==
    /\ m_pc = "start"
    /\ discogs_releases = << >>
    /\ matches' = << >>
    /\ m_confidence' = [score |-> << 0, 1 >>, level |-> "LOW"]
    /\ m_pc' = "verified"
    /\ UNCHANGED << discogs_releases, service_releases, normalized_discogs,
                    normalized_service, unmatched_discogs, unmatched_service,
                    f_idx, n_vars, c_vars, s_vars, calls, w_vars, r_vars >>

\* verify_artist_with_releases, lines 1322-1325:
\* calculate_confidence(matches, len(known_releases))
VerifyConfidence ==
    /\ m_pc = "returned"
    /\ discogs_releases # << >>
    /\ m_confidence' = calculate_confidence(matches, Len(discogs_releases))
    /\ m_pc' = "verified"
    /\ UNCHANGED << discogs_releases, service_releases, normalized_discogs,
                    normalized_service, matches, unmatched_discogs,
                    unmatched_service, f_idx, n_vars, c_vars, s_vars, calls, w_vars, r_vars >>

NextMatch ==
    \/ NormalizeAll
    \/ ExactMatches
    \/ CollectUnmatched
    \/ FuzzyMatch
    \/ ReturnMatches
    \/ VerifyNoReleases
    \/ VerifyConfidence

SpecMatch == InitMatch /\ [][NextMatch]_vars

----------------------------------------------------------------------------
(* calculate_confidence on a list of matches that grows by one match at a  *)
(* time, for a fixed total_discogs                                         *)

\* match scores: an exact match, fuzzy matches above, at and below 0.9
ScoreSamples == { << 1, 1 >>, << 19, 20 >>, << 9, 10 >>, << 3, 4 >> }

SampleMatch(score) ==
    ReleaseMatch(<< "k" >>, << "s" >>, score, IF score = << 1, 1 >> THEN "exact" ELSE "fuzzy")

InitConf ==
    /\ c_pc = "call"
    /\ c_matches = << >>
    /\ c_total \in 0..MaxTotal
    /\ c_result = NoResult
    /\ c_prev = "none"
    /\ NormIdle
    /\ MatchIdle
    /\ ScorerIdle
    /\ calls = NoCalls
    /\ WrapperIdle
    /\ ReportIdle

CalculateConfidence ==
    /\ c_pc = "call"
    /\ c_result' = calculate_confidence(c_matches, c_total)
    /\ c_pc' = "done"
    /\ UNCHANGED << c_matches, c_total, c_prev, n_vars, m_vars, s_vars, calls, w_vars, r_vars >>

\* the caller holds one more match and asks again
AppendMatch ==
    /\ c_pc = "done"
    /\ Len(c_matches) < MaxMatches
    /\ \E score \in ScoreSamples : c_matches' = Append(c_matches, SampleMatch(score))
    /\ c_prev' = c_result.level
    /\ c_pc' = "call"
    /\ UNCHANGED << c_total, c_result, n_vars, m_vars, s_vars, calls, w_vars, r_vars >>

NextConf ==
    \/ CalculateConfidence
    \/ AppendMatch

SpecConf == InitConf /\ [][NextConf]_vars

----------------------------------------------------------------------------
(* find_best_match on a candidate list and a target *)

MatchCandidate(artist_name, album_name, release_date, album_type, is_compilation, service_name, payload_flag) ==
    [artist_name |-> artist_name, album_name |-> album_name,
     release_date |-> release_date, album_type |-> album_type,
     is_compilation |-> is_compilation, service_name |-> service_name,
     data |-> [isCompilation |-> payload_flag]]

A_ab == <<"a","b">>

A_AB_c == <<"A","B"," ","c">>

A_b == <<"b">>

A_cd == <<"c","d">>

T_x == <<"x">>

T_x_hits == <<"x"," ","h","i","t","s">>

T_x_bonus == <<"x"," ","b","o","n","u","s">>

T_x_hits_bonus == <<"x"," ","h","i","t","s"," ","b","o","n","u","s">>

T_hits == <<"h","i","t","s">>

T_y == <<"y">>

D_2000 == <<"2","0","0","0","-","0","1","-","0","1">>

D_1999 == <<"1","9","9","9">>

D_1995 == <<"1","9","9","5","-","0","6">>

D_1980 == <<"1","9","8","0">>

D_bad == <<"2","0","x","0">>

Y_Single == <<"S","i","n","g","l","e">>

Y_ep == <<"e","p">>

N_Spotify == <<"S","p","o","t","i","f","y">>

N_AppleMusic == <<"A","p","p","l","e"," ","M","u","s","i","c">>

\* the service name and the payload's isCompilation flag, together
Services ==
    { << N_Spotify, FALSE >>, << N_AppleMusic, TRUE >>, << S_apple_music, TRUE >> }

\* every combination of the fields the score reads
AllCandidates ==
    { MatchCandidate(ar, al, dt, ty, ic, sv[1], sv[2]) :
        ar \in { A_ab, A_AB_c, A_b, A_cd, << >> },
        al \in { T_x, T_x_hits, T_x_bonus, T_x_hits_bonus, T_hits, T_y, << >> },
        dt \in { << >>, D_2000, D_1999, D_1995, D_1980, D_bad },
        ty \in { None, S_album, Y_Single, S_compilation, S_appears_on, Y_ep },
        ic \in { "True", "False" },
        sv \in Services }

\* candidates for the longer lists: an exact match that is a single of a far
\* year, the same again from the other service (a tie), a partial title
\* match that is an album of the target year, an exact match in everything,
\* another artist's album of the same title, a compilation of a partial
\* artist match whose penalties outweigh its points, a candidate with empty
\* names, and one with no artist name
CandidatePool ==
    { MatchCandidate(A_ab, T_x, D_1980, Y_Single, "False", N_Spotify, FALSE),
      MatchCandidate(A_ab, T_x, D_1980, Y_Single, "False", N_AppleMusic, FALSE),
      MatchCandidate(A_ab, T_x_bonus, D_2000, S_album, "False", N_Spotify, FALSE),
      MatchCandidate(A_ab, T_x, D_2000, S_album, "False", N_Spotify, FALSE),
      MatchCandidate(A_cd, T_x, D_2000, S_album, "False", N_Spotify, FALSE),
      MatchCandidate(A_b, T_hits, << >>, S_compilation, "True", N_Spotify, FALSE),
      MatchCandidate(<< >>, << >>, << >>, None, "None", N_Spotify, FALSE),
      MatchCandidate(None, T_x, << >>, None, "None", N_Spotify, FALSE) }

CandidateLists ==
    { << c >> : c \in AllCandidates }
        \cup UNION { [1..k -> CandidatePool] : k \in 0..MaxCandidates }

target_artist_lower == Lower(target_artist)

target_album_lower == Lower(target_album)

InitScorer ==
    /\ s_pc = "call"
    /\ candidates \in CandidateLists
    /\ target_artist \in { <<"A","b">>, A_cd }
    /\ target_album \in { <<"X">>, T_x_hits, T_x_hits_bonus }
    /\ target_year \in { 0, 2000 }
    /\ s_idx = 0
    /\ best_match = 0
    /\ best_score = 0
    /\ NormIdle
    /\ MatchIdle
    /\ ConfIdle
    /\ calls = NoCalls
    /\ WrapperIdle
    /\ ReportIdle

\* lines 32-33: if not candidates: return None
ReturnNoCandidates ==
    /\ s_pc = "call"
    /\ candidates = << >>
    /\ best_match' = 0
    /\ s_pc' = "returned"
    /\ UNCHANGED << candidates, target_artist, target_album, target_year, s_idx,
                    best_score, n_vars, m_vars, c_vars, calls, w_vars, r_vars >>

\* lines 35-40
StartLoop ==
    /\ s_pc = "call"
    /\ candidates # << >>
    /\ best_match' = 0
    /\ best_score' = 0
    /\ s_idx' = 1
    /\ s_pc' = "loop"
    /\ UNCHANGED << candidates, target_artist, target_album, target_year,
                    n_vars, m_vars, c_vars, calls, w_vars, r_vars >>

\* lines 42-52: one round of the loop
ScoreCandidate ==
    /\ s_pc = "loop"
    /\ s_idx <= Len(candidates)
    /\ ~ScoreRaises(candidates[s_idx], target_artist_lower)
    /\ LET score == _calculate_match_score(candidates[s_idx], target_artist_lower,
                                           target_album_lower, target_year)
       IN  IF Improves(score, best_score)
           THEN best_score' = score /\ best_match' = s_idx
           ELSE UNCHANGED << best_score, best_match >>
    /\ s_idx' = s_idx + 1
    /\ UNCHANGED << s_pc, candidates, target_artist, target_album, target_year,
                    n_vars, m_vars, c_vars, calls, w_vars, r_vars >>

\* lines 43-45, 68: the score of a candidate without an artist name
\* raises, and find_best_match with it
ScoreCandidateRaises ==
    /\ s_pc = "loop"
    /\ s_idx <= Len(candidates)
    /\ ScoreRaises(candidates[s_idx], target_artist_lower)
    /\ s_pc' = "raised"
    /\ UNCHANGED << candidates, target_artist, target_album, target_year, s_idx,
                    best_match, best_score, n_vars, m_vars, c_vars, calls, w_vars, r_vars >>

\* lines 54-57: return best_match
ReturnBestMatch ==
    /\ s_pc = "loop"
    /\ s_idx > Len(candidates)
    /\ s_pc' = "returned"
    /\ UNCHANGED << candidates, target_artist, target_album, target_year, s_idx,
                    best_match, best_score, n_vars, m_vars, c_vars, calls, w_vars, r_vars >>

NextScorer ==
    \/ ReturnNoCandidates
    \/ StartLoop
    \/ ScoreCandidate
    \/ ScoreCandidateRaises
    \/ ReturnBestMatch

SpecScorer == InitScorer /\ [][NextScorer]_vars

----------------------------------------------------------------------------
(* find_best_match on one candidate, over release dates and target years   *)

\* release dates: none, empty, a full date, a bare year, a year and month,
\* a leading component that is no number, and an empty leading component
YearDates ==
    { None, << >>, D_2000, <<"2","0","0","0">>, <<"2","0","0","0","-","0","6">>,
      D_bad, <<"-","2","0","0","0">> }

\* target years around 2000, up to MaxYearDiff away; 0 stands for no year
TargetYears == { 0 } \cup ((2000 - MaxYearDiff)..(2000 + MaxYearDiff))

InitYear ==
    /\ s_pc = "call"
    /\ candidates \in
           { << >>, << MatchCandidate(None, T_x, << >>, None, "None", N_Spotify, FALSE) >> }
           \cup { << MatchCandidate(A_ab, al, dt, S_album, "False", N_Spotify, FALSE) >> :
                      al \in { T_x, T_y }, dt \in YearDates }
    /\ target_artist = <<"A","b">>
    /\ target_album = <<"X">>
    /\ target_year \in TargetYears
    /\ s_idx = 0
    /\ best_match = 0
    /\ best_score = 0
    /\ NormIdle
    /\ MatchIdle
    /\ ConfIdle
    /\ calls = NoCalls
    /\ WrapperIdle
    /\ ReportIdle

SpecYear == InitYear /\ [][NextScorer]_vars

----------------------------------------------------------------------------
(* The services' find_best_match: candidates made from the search results, *)
(* MusicMatcher.find_best_match on them, and the best match's data         *)
(* returned.  An Apple Music album is [attributes |-> [artistName, name,   *)
(* releaseDate, isCompilation]]; a Spotify album is [artists, name,        *)
(* release_date, album_type], artists being the list of the artists'       *)
(* names.  A key the payload lacks has the value Absent.                   *)

\* AppleMusicMatcher.create_candidates, for the list at
\* search_results["results"]["albums"]["data"]
AppleMusicMatcher_create_candidates(albums) ==
    [i \in DOMAIN albums |->
        LET attributes == albums[i].attributes
        IN  [data           |-> albums[i],
             artist_name    |-> Get(attributes.artistName, << >>),
             album_name     |-> Get(attributes.name, << >>),
             release_date   |-> Get(attributes.releaseDate, << >>),
             album_type     |-> None,
             is_compilation |-> GetFlag(attributes.isCompilation, "False"),
             service_name   |-> N_AppleMusic]]

\* SpotifyMatcher.create_candidates, for the list at
\* search_results["albums"]["items"]
SpotifyMatcher_create_candidates(albums) ==
    [i \in DOMAIN albums |->
        LET album   == albums[i]
            artists == Get(album.artists, << >>)
        IN  [data           |-> album,
             artist_name    |-> IF artists # << >> THEN Get(artists[1], << >>) ELSE << >>,
             album_name     |-> Get(album.name, << >>),
             release_date   |-> Get(album.release_date, << >>),
             album_type     |-> Get(album.album_type, << >>),
             is_compilation |-> IF Get(album.album_type, << >>) = S_compilation
                                THEN "True" ELSE "False",
             service_name   |-> N_Spotify]]

\* Apple Music albums: with and without an artist name, or with a null one;
\* a title that is the target's or has a compilation keyword; every value of
\* the isCompilation flag
AppleMusicAlbums ==
    { [attributes |-> [artistName |-> ar, name |-> al, releaseDate |-> D_2000,
                       isCompilation |-> fl]] :
        ar \in { A_ab, Absent, None },
        al \in { T_x, T_x_hits },
        fl \in { "True", "False", "1", "Absent" } }

\* Spotify albums: no artist, one, or two of which the second is the
\* target; the two titles; three album types or none
SpotifyAlbums ==
    { [artists |-> ars, name |-> al, release_date |-> D_2000, album_type |-> ty] :
        ars \in { << >>, << A_ab >>, << A_cd, A_ab >> },
        al \in { T_x, T_x_hits },
        ty \in { S_album, S_compilation, Y_Single, Absent } }

SearchResults(albums) == UNION { [1..k -> albums] : k \in 0..MaxResults }

InitService ==
    /\ w_pc = "call"
    /\ \/ w_service = "Apple Music" /\ search_results \in SearchResults(AppleMusicAlbums)
       \/ w_service = "Spotify" /\ search_results \in SearchResults(SpotifyAlbums)
    /\ w_result = None
    /\ s_pc = "idle"
    /\ candidates = << >>
    /\ target_artist = <<"A","b">>
    /\ target_album = <<"X">>
    /\ target_year = 2000
    /\ s_idx = 0
    /\ best_match = 0
    /\ best_score = 0
    /\ NormIdle
    /\ MatchIdle
    /\ ConfIdle
    /\ calls = NoCalls
    /\ ReportIdle

\* candidates = AppleMusicMatcher.create_candidates(search_results), or
\* SpotifyMatcher's, and the call of self.matcher.find_best_match
CreateCandidates ==
    /\ w_pc = "call"
    /\ candidates' = IF w_service = "Apple Music"
                     THEN AppleMusicMatcher_create_candidates(search_results)
                     ELSE SpotifyMatcher_create_candidates(search_results)
    /\ s_pc' = "call"
    /\ w_pc' = "matching"
    /\ UNCHANGED << target_artist, target_album, target_year, s_idx, best_match,
                    best_score, w_service, search_results, w_result,
                    n_vars, m_vars, c_vars, calls, r_vars >>

\* the wrapper's return statement handing back the first candidate's record
\* instead of the best match's
ServiceReturnsFirstRecord ==
    /\ w_pc = "matching"
    /\ s_pc = "returned"
    /\ w_result' = IF best_match # 0 THEN candidates[1].data ELSE None
    /\ w_pc' = "returned"
    /\ UNCHANGED << w_service, search_results, s_vars, n_vars, m_vars, c_vars, calls,
                    r_vars >>

\* return best_match.data if best_match else None
ServiceReturns ==
    /\ w_pc = "matching"
    /\ s_pc = "returned"
    /\ w_result' = IF best_match # 0 THEN candidates[best_match].data ELSE None
    /\ w_pc' = "returned"
    /\ UNCHANGED << w_service, search_results, s_vars, n_vars, m_vars, c_vars, calls,
                    r_vars >>

\* the matcher's exception leaves the service's find_best_match
ServiceRaises ==
    /\ w_pc = "matching"
    /\ s_pc = "raised"
    /\ w_pc' = "raised"
    /\ UNCHANGED << w_service, search_results, w_result, s_vars, n_vars, m_vars,
                    c_vars, calls, r_vars >>

NextService ==
    \/ CreateCandidates
    \/ ReturnNoCandidates
    \/ StartLoop
    \/ ScoreCandidate
    \/ ScoreCandidateRaises
    \/ ReturnBestMatch
    \/ ServiceReturns
    \/ ServiceRaises

SpecService == InitService /\ [][NextService]_vars

----------------------------------------------------------------------------
(* analyze_release_matching: a release's Discogs title and its Apple Music  *)
(* title, each normalized by normalize_album_name                           *)

\* the words album names are made of: a plain one, one with an article and
\* an upper-case letter, one with punctuation, one with a parenthetical, and
\* one of the common variations
AlbumWords ==
    { <<"x">>,
      <<"T","h","e"," ","Y">>,
      <<"a","-","b">>,
      <<"x"," ","(","c",")">>,
      <<"D","e","l","u","x","e">> }

\* left and right joined by the word 'and', and by the ampersand
WithAnd(left, right) == left \o <<" ","a","n","d"," ">> \o right

WithAmpersand(left, right) == left \o <<" ","&"," ">> \o right

AlbumNames ==
    AlbumWords
        \cup { WithAnd(l, r) : l, r \in AlbumWords }
        \cup { WithAmpersand(l, r) : l, r \in AlbumWords }

InitReport ==
    /\ r_pc = "start"
    /\ r_discogs_title \in AlbumNames
    /\ r_apple_music_title \in AlbumNames \cup { None, << >> }
    /\ r_discogs_normalized = << >>
    /\ r_apple_music_normalized = None
    /\ NormIdle
    /\ MatchIdle
    /\ ConfIdle
    /\ ScorerIdle
    /\ calls = NoCalls
    /\ WrapperIdle

\* line 145: discogs_normalized = self.normalize_album_name(discogs_title)
NormalizeDiscogsTitle ==
    /\ r_pc = "start"
    /\ r_discogs_normalized' = normalize_album_name(r_discogs_title)
    /\ r_pc' = "discogs"
    /\ UNCHANGED << r_discogs_title, r_apple_music_title, r_apple_music_normalized,
                    n_vars, m_vars, c_vars, s_vars, calls, w_vars >>

\* line 146: apple_music_normalized =
\*     self.normalize_album_name(apple_music_title) if apple_music_title else None
NormalizeAppleMusicTitle ==
    /\ r_pc = "discogs"
    /\ r_apple_music_normalized' =
           IF Truthy(r_apple_music_title) THEN normalize_album_name(r_apple_music_title)
           ELSE None
    /\ r_pc' = "normalized"
    /\ UNCHANGED << r_discogs_title, r_apple_music_title, r_discogs_normalized,
                    n_vars, m_vars, c_vars, s_vars, calls, w_vars >>

NextReport ==
    \/ NormalizeDiscogsTitle
    \/ NormalizeAppleMusicTitle

SpecReport == InitReport /\ [][NextReport]_vars

----------------------------------------------------------------------------
(* One caller per function, each running its invocation step by step while *)
(* the others run theirs, and invoking again with the same arguments once  *)
(* its invocation is over                                                  *)

ConcurrentKnown ==
    { << <<"a","b"," ","c","e">>, <<"a","b"," ","c","d">> >>,
      << <<"A","b">>, <<"a","b"," ","c","d">> >> }

ConcurrentService ==
    { << <<"A","b">> >>,
      << <<"a","b"," ","(","x",")">>, <<"a","b"," ","c","d">> >> }

ConcurrentMatches ==
    { << >>,
      << SampleMatch(<< 1, 1 >>) >>,
      << SampleMatch(<< 1, 1 >>), SampleMatch(<< 3, 4 >>) >> }

ConcurrentCandidates ==
    { << >> } \cup
    [1..2 -> { MatchCandidate(A_ab, T_x, D_1980, Y_Single, "False", N_Spotify, FALSE),
               MatchCandidate(A_ab, T_x_bonus, D_2000, S_album, "False", N_Spotify, FALSE),
               MatchCandidate(None, T_x, << >>, None, "None", N_Spotify, FALSE) }]

InitConcurrent ==
    /\ m_pc = "start"
    /\ discogs_releases \in ConcurrentKnown
    /\ service_releases \in ConcurrentService
    /\ normalized_discogs = << >>
    /\ normalized_service = << >>
    /\ matches = << >>
    /\ unmatched_discogs = << >>
    /\ unmatched_service = << >>
    /\ f_idx = 0
    /\ m_confidence = NoResult
    /\ c_pc = "call"
    /\ c_matches \in ConcurrentMatches
    /\ c_total \in { 0, 2 }
    /\ c_result = NoResult
    /\ c_prev = "none"
    /\ s_pc = "call"
    /\ candidates \in ConcurrentCandidates
    /\ target_artist = <<"A","b">>
    /\ target_album = <<"X">>
    /\ target_year = 2000
    /\ s_idx = 0
    /\ best_match = 0
    /\ best_score = 0
    /\ NormIdle
    /\ calls = NoCalls
    /\ WrapperIdle
    /\ ReportIdle

\* match_releases is called again with the same two lists
MatchAgain ==
    /\ m_pc = "returned"
    /\ calls["match_releases"] + 1 < MaxCalls
    /\ calls' = [calls EXCEPT !["match_releases"] = @ + 1]
    /\ m_pc' = "start"
    /\ UNCHANGED << discogs_releases, service_releases, normalized_discogs,
                    normalized_service, matches, unmatched_discogs,
                    unmatched_service, f_idx, m_confidence, n_vars, c_vars, s_vars, w_vars, r_vars >>

\* calculate_confidence is called again with the same arguments
ConfidenceAgain ==
    /\ c_pc = "done"
    /\ calls["calculate_confidence"] + 1 < MaxCalls
    /\ calls' = [calls EXCEPT !["calculate_confidence"] = @ + 1]
    /\ c_pc' = "call"
    /\ UNCHANGED << c_matches, c_total, c_result, c_prev, n_vars, m_vars, s_vars, w_vars, r_vars >>

\* find_best_match is called again with the same arguments
BestMatchAgain ==
    /\ s_pc \in { "returned", "raised" }
    /\ calls["find_best_match"] + 1 < MaxCalls
    /\ calls' = [calls EXCEPT !["find_best_match"] = @ + 1]
    /\ s_pc' = "call"
    /\ UNCHANGED << candidates, target_artist, target_album, target_year, s_idx,
                    best_match, best_score, n_vars, m_vars, c_vars, w_vars,
                    r_vars >>

NextConcurrent ==
    \/ NormalizeAll
    \/ ExactMatches
    \/ CollectUnmatched
    \/ FuzzyMatch
    \/ ReturnMatches
    \/ MatchAgain
    \/ CalculateConfidence
    \/ ConfidenceAgain
    \/ ReturnNoCandidates
    \/ StartLoop
    \/ ScoreCandidate
    \/ ScoreCandidateRaises
    \/ ReturnBestMatch
    \/ BestMatchAgain

SpecConcurrent == InitConcurrent /\ [][NextConcurrent]_vars

----------------------------------------------------------------------------
(* Claims *)

Returned == m_pc \in { "returned", "verified" }

\* C1: no service title is the service_title of more than one ReleaseMatch
\* returned by match_releases.
C1_ServiceTitleOnce ==
    Returned =>
        \A i, j \in DOMAIN matches :
            i # j => matches[i].service_title # matches[j].service_title

\* C2: no known title is the discogs_title of more than one ReleaseMatch
\* returned by match_releases, duplicates and normalization collisions in
\* the known list included.
C2_KnownTitleOnce ==
    Returned =>
        \A i, j \in DOMAIN matches :
            i # j => matches[i].discogs_title # matches[j].discogs_title

\* C2, its case: match_releases has returned two matches for a known list
\* that holds two different titles with the same normalized form.
C2_Witness ==
    /\ m_pc = "returned"
    /\ Len(matches) >= 2
    /\ \E i, j \in DOMAIN discogs_releases :
           /\ discogs_releases[i] # discogs_releases[j]
           /\ normalize_title(discogs_releases[i]) = normalize_title(discogs_releases[j])

\* the score find_best_match computes for the candidate at position i
ScoreAt(i) ==
    _calculate_match_score(candidates[i], target_artist_lower, target_album_lower,
                           target_year)

\* the candidate has an artist name that, lower-cased, is not the target
\* artist, does not contain it and is not contained in it
NoArtistRelation(candidate) ==
    /\ candidate.artist_name # None
    /\ Lower(candidate.artist_name) # target_artist_lower
    /\ ~IsSubstring(target_artist_lower, Lower(candidate.artist_name))
    /\ ~IsSubstring(Lower(candidate.artist_name), target_artist_lower)

\* C3: a candidate whose artist has no equality or substring relation with
\* the target artist scores 0 and is never the best match, whatever its other
\* fields and whatever the other candidates are.
C3_ArtistGate ==
    \A i \in DOMAIN candidates :
        NoArtistRelation(candidates[i]) => ScoreAt(i) = 0 /\ best_match # i

\* C3, its case: find_best_match has returned another candidate for a list
\* that holds an album of the target's title, by an unrelated artist.
C3_Witness ==
    /\ s_pc = "returned"
    /\ best_match # 0
    /\ \E i \in DOMAIN candidates :
           /\ NoArtistRelation(candidates[i])
           /\ Lower(candidates[i].album_name) = target_album_lower
           /\ Truthy(candidates[i].album_type)
           /\ Lower(candidates[i].album_type) = S_album

\* C4: find_best_match returns a candidate only if its score is greater than
\* 0, and returns None for an empty list and for a list whose candidates all
\* score 0 or less.
C4_PositiveOnly ==
    s_pc = "returned" =>
        /\ best_match # 0 => ScoreAt(best_match) > 0
        /\ (\A i \in DOMAIN candidates : ScoreAt(i) <= 0) => best_match = 0

\* C4, its case: None was returned for a list with a candidate that passes
\* the artist gate and whose penalties bring it below 0.
C4_Witness ==
    /\ s_pc = "returned"
    /\ best_match = 0
    /\ \E i \in DOMAIN candidates :
           /\ ArtistPoints(Lower(candidates[i].artist_name), target_artist_lower) > 0
           /\ ScoreAt(i) < 0

\* candidate A of C5: the target's artist and title, not a compilation
ExactMatch(candidate) ==
    /\ candidate.artist_name # None
    /\ Lower(candidate.artist_name) = target_artist_lower
    /\ Lower(candidate.album_name) = target_album_lower
    /\ ~_detect_compilation(candidate)

\* candidate B of C5: the target's artist, and a title that contains the
\* target's or is contained in it, without being equal
PartialTitleMatch(candidate) ==
    /\ candidate.artist_name # None
    /\ Lower(candidate.artist_name) = target_artist_lower
    /\ Lower(candidate.album_name) # target_album_lower
    /\ \/ IsSubstring(target_album_lower, Lower(candidate.album_name))
       \/ IsSubstring(Lower(candidate.album_name), target_album_lower)

\* C5: a candidate with the target's artist and title that is no compilation
\* scores more than any candidate of the same artist with only a partial
\* title match, whatever their album types, release years and title keywords.
C5_ExactDominance ==
    s_pc = "returned" =>
        \A i, j \in DOMAIN candidates :
            (ExactMatch(candidates[i]) /\ PartialTitleMatch(candidates[j])) =>
                ScoreAt(i) > ScoreAt(j)

\* C6: every returned 'exact' match has match_score exactly 1.0, and every
\* returned 'fuzzy' match has 0.7 < match_score < 1.0.
C6_ScoreByType ==
    Returned =>
        \A i \in DOMAIN matches :
            /\ matches[i].match_type \in { "exact", "fuzzy" }
            /\ matches[i].match_type = "exact" => RatEQ(matches[i].match_score, << 1, 1 >>)
            /\ matches[i].match_type = "fuzzy" =>
                   /\ RatGT(matches[i].match_score, << 7, 10 >>)
                   /\ RatGT(<< 1, 1 >>, matches[i].match_score)

\* C6, its case: match_releases has returned an exact and a fuzzy match.
C6_Witness ==
    /\ m_pc = "returned"
    /\ \E i, j \in DOMAIN matches :
           matches[i].match_type = "exact" /\ matches[j].match_type = "fuzzy"

\* C7: normalize_title(normalize_title(s)) = normalize_title(s) for every
\* string s.
C7_TitleIdempotent == n_pc = "title2" => n_out2 = n_out

\* C8: normalize_name(normalize_name(s)) = normalize_name(s) for every
\* string s, names that start with several articles included.
C8_NameIdempotent == n_pc = "name2" => n_out2 = n_out

\* the level the claim C9 states, for total_known > 0
C9_StatedLevel(ms, total_known) ==
    LET n == Len(ms)
    IN  IF \/ 2 * n >= total_known /\ n >= 2
           \/ n >= 5
           \/ total_known = 1 /\ n = 1 /\ RatGT(ms[1].match_score, << 9, 10 >>)
        THEN "HIGH"
        ELSE IF 10 * n >= 3 * total_known \/ n >= 1 THEN "MEDIUM"
        ELSE "LOW"

\* C9: for total_known > 0 the level is HIGH if (percentage >= 0.5 and two
\* matches or more) or five matches or more or (one known release, one match,
\* score > 0.9); otherwise MEDIUM if percentage >= 0.3 or one match or more;
\* otherwise LOW.
C9_Level ==
    (c_pc = "done" /\ c_total > 0) =>
        c_result.level = C9_StatedLevel(c_matches, c_total)

\* C9, its case: five matches, less than half of the known releases, give HIGH.
C9_Witness ==
    /\ c_pc = "done"
    /\ Len(c_matches) = 5
    /\ 2 * Len(c_matches) < c_total
    /\ c_result.level = "HIGH"

LevelRank(level) ==
    CASE level = "LOW" -> 1
      [] level = "MEDIUM" -> 2
      [] level = "HIGH" -> 3
      [] OTHER -> 0

\* C10: for a fixed total_known > 0, the level returned for a list of
\* matches with one more match appended is never lower, in the order
\* LOW < MEDIUM < HIGH, than the level returned for the list.
C10_Monotone ==
    (c_pc = "done" /\ c_total > 0 /\ c_prev # "none") =>
        LevelRank(c_result.level) >= LevelRank(c_prev)

\* C10, its case: the single-release special case gave HIGH, and a second
\* match was appended.
C10_Witness ==
    /\ c_pc = "done"
    /\ c_total = 1
    /\ Len(c_matches) = 2
    /\ RatGT(c_matches[1].match_score, << 9, 10 >>)
    /\ c_prev = "HIGH"
    /\ c_result.level = "HIGH"

\* C11: calculate_confidence(matches, 0) returns exactly (0.0, "NO_RELEASES")
\* for every list of matches, and returns the level NO_RELEASES for no
\* total_known other than 0.
C11_NoReleases ==
    c_pc = "done" =>
        /\ c_total = 0 => c_result = [score |-> << 0, 1 >>, level |-> "NO_RELEASES"]
        /\ c_result.level = "NO_RELEASES" => c_total = 0

\* C11, its case: the call returned for total_known = 0 and a list of matches
\* that is not empty.
C11_Witness ==
    /\ c_pc = "done"
    /\ c_total = 0
    /\ Len(c_matches) >= 2
    /\ c_result.level = "NO_RELEASES"

\* C12: the candidate find_best_match returns has the maximum score of the
\* list, and is the first of the list among those that have that score.
C12_FirstMaximum ==
    (s_pc = "returned" /\ best_match # 0) =>
        \A i \in DOMAIN candidates :
            /\ ScoreAt(i) <= ScoreAt(best_match)
            /\ ScoreAt(i) = ScoreAt(best_match) => i >= best_match

\* C12, its case: the returned candidate is neither first nor last in the
\* list; a lower score precedes it and a different candidate with its own
\* score follows it.
C12_Witness ==
    /\ s_pc = "returned"
    /\ best_match # 0
    /\ \E i, j \in DOMAIN candidates :
           /\ i < best_match
           /\ ScoreAt(i) < ScoreAt(best_match)
           /\ ScoreAt(i) > 0
           /\ j > best_match
           /\ candidates[j] # candidates[best_match]
           /\ ScoreAt(j) = ScoreAt(best_match)

\* C13: normalize_title and normalize_name never raise, and each returns the
\* empty string for the empty string and for None.
C13_NeverRaises ==
    /\ n_pc \notin { "title raised", "name raised" }
    /\ (n_pc \in { "title", "name" } /\ n_input \in { << >>, None }) => n_out = << >>

\* C14: find_best_match does not raise for a candidate list in which some
\* candidate has an empty artist_name or the artist_name None.
C14_NeverRaises ==
    (\E i \in DOMAIN candidates : candidates[i].artist_name \in { << >>, None }) =>
        s_pc # "raised"

\* C15: for a single known title and a service list that holds a title of the
\* same normalized form, match_releases returns exactly one match, 'exact'
\* with score 1.0, and calculate_confidence(matches, 1) returns the score 1.0
\* and the level HIGH, whatever else the service list holds.
C15_SingleTitle ==
    (/\ Returned
     /\ Len(discogs_releases) = 1
     /\ \E j \in DOMAIN service_releases :
            normalize_title(service_releases[j]) = normalize_title(discogs_releases[1])) =>
        /\ Len(matches) = 1
        /\ matches[1].discogs_title = discogs_releases[1]
        /\ matches[1].match_type = "exact"
        /\ matches[1].match_score = << 1, 1 >>
        /\ m_pc = "verified" =>
               /\ RatEQ(m_confidence.score, << 1, 1 >>)
               /\ m_confidence.level = "HIGH"

\* C15, its case: the known title and its service title differ in case and
\* in a trailing parenthetical, and the service list holds a second title
\* that is close to the known one.
C15_Witness ==
    /\ m_pc = "verified"
    /\ Len(discogs_releases) = 1
    /\ Len(service_releases) = 2
    /\ \E j, k \in DOMAIN service_releases :
           /\ service_releases[j] # discogs_releases[1]
           /\ normalize_title(service_releases[j]) = normalize_title(discogs_releases[1])
           /\ normalize_title(service_releases[k]) # normalize_title(discogs_releases[1])
           /\ RatGT(FuzzyScore(normalize_title(discogs_releases[1]),
                               normalize_title(service_releases[k])), FuzzyThreshold)
    /\ m_confidence.level = "HIGH"

PassesArtistGate(candidate) ==
    candidate.artist_name # None /\ ~NoArtistRelation(candidate)

\* the sum C17 gives for a candidate that passes the artist gate
C17_StatedScore(candidate) ==
    LET artist  == Lower(candidate.artist_name)
        title   == Lower(candidate.album_name)
        type    == IF Truthy(candidate.album_type) THEN Lower(candidate.album_type)
                   ELSE None
        keyword == \E w \in compilation_indicators : IsSubstring(w, title)
        reissue == \E w \in reissue_indicators : IsSubstring(w, title)
        flagged == _detect_compilation(candidate)
    IN  (IF artist = target_artist_lower THEN 10 ELSE 5)
        + (IF title = target_album_lower THEN 10
           ELSE IF IsSubstring(target_album_lower, title) THEN 7
           ELSE IF IsSubstring(title, target_album_lower) THEN 5
           ELSE 0)
        + (CASE type = S_album -> 3
             [] type \in { S_compilation, S_appears_on } -> -3
             [] type = S_single -> -5
             [] OTHER -> 0)
        + (IF flagged THEN -3 ELSE 0)
        + (IF keyword THEN -5 ELSE 0)
        + (IF target_year # 0 /\ Truthy(candidate.release_date)
           THEN _calculate_year_score(candidate.release_date, target_year) ELSE 0)
        + (IF reissue THEN -1 ELSE 0)
        + (IF artist = target_artist_lower /\ title = target_album_lower /\ ~flagged
           THEN 5 ELSE 0)

\* C17: the score of a candidate that passes the artist gate is the sum of
\* the artist, title, album type, compilation, compilation keyword, year,
\* reissue keyword and exact match terms, and the best score find_best_match
\* ends with is the greatest of these sums that is above 0.
C17_ScoreSum ==
    /\ \A i \in DOMAIN candidates :
           (PassesArtistGate(candidates[i])
               /\ ~ScoreRaises(candidates[i], target_artist_lower)) =>
               ScoreAt(i) = C17_StatedScore(candidates[i])
    /\ (s_pc = "returned" /\ candidates # << >>
           /\ \A i \in DOMAIN candidates : PassesArtistGate(candidates[i])) =>
           best_score = Max({ 0 } \cup { C17_StatedScore(candidates[i]) :
                                           i \in DOMAIN candidates })

\* C17, its case: a returned call whose only candidate passes the gate with
\* a partial artist match, has the type 'compilation' and a compilation
\* keyword in its title, and so carries the three penalties, 11 in total.
C17_Witness ==
    /\ s_pc = "returned"
    /\ Len(candidates) = 1
    /\ PassesArtistGate(candidates[1])
    /\ Lower(candidates[1].artist_name) # target_artist_lower
    /\ candidates[1].is_compilation = "False"
    /\ Truthy(candidates[1].album_type)
    /\ Lower(candidates[1].album_type) = S_compilation
    /\ IsSubstring(<<"h","i","t","s">>, Lower(candidates[1].album_name))
    /\ IsSubstring(target_album_lower, Lower(candidates[1].album_name))
    /\ ScoreAt(1) = 5 + 7 - 11
    /\ best_match = 1

\* the normalized forms of the known titles of the matches
MatchedKnown == { normalize_title(matches[i].discogs_title) : i \in DOMAIN matches }

\* the service titles of the matches
MatchedService == { matches[i].service_title : i \in DOMAIN matches }

\* C18: after match_releases returns, no known title whose normalized form
\* is in no returned match and service title that is in no returned match
\* have equal normalized forms or a combined fuzzy score above 0.7.
C18_Maximal ==
    Returned =>
        \A k \in Range(discogs_releases), s \in Range(service_releases) :
            (normalize_title(k) \notin MatchedKnown /\ s \notin MatchedService) =>
                /\ normalize_title(k) # normalize_title(s)
                /\ ~RatGT(FuzzyScore(normalize_title(k), normalize_title(s)), << 7, 10 >>)

\* the same with the service title too taken by its normalized form
C18_MaximalByForm ==
    Returned =>
        \A k \in Range(discogs_releases), s \in Range(service_releases) :
            (/\ normalize_title(k) \notin MatchedKnown
             /\ normalize_title(s) \notin { normalize_title(t) : t \in MatchedService }) =>
                /\ normalize_title(k) # normalize_title(s)
                /\ ~RatGT(FuzzyScore(normalize_title(k), normalize_title(s)), << 7, 10 >>)

\* the service items without the one at position j
WithoutItem(us, j) == SubSeq(us, 1, j - 1) \o SubSeq(us, j + 1, Len(us))

\* the first position of us whose combined score with norm_discogs is the
\* highest (us is not empty)
FirstHighest(norm_discogs, us) ==
    CHOOSE j \in DOMAIN us :
        /\ \A h \in DOMAIN us :
               ~RatGT(FuzzyScore(norm_discogs, us[h].k), FuzzyScore(norm_discogs, us[j].k))
        /\ \A h \in 1..(j - 1) :
               RatGT(FuzzyScore(norm_discogs, us[j].k), FuzzyScore(norm_discogs, us[h].k))

RECURSIVE C19_StatedPass(_, _, _, _)
\* the fuzzy pass as C19 states it, from known item i on: us holds the
\* service items not yet matched, and loses the one a fuzzy match takes
C19_StatedPass(ms, ud, us, i) ==
    IF i > Len(ud) THEN ms
    ELSE IF us = << >> THEN C19_StatedPass(ms, ud, us, i + 1)
    ELSE LET j     == FirstHighest(ud[i].k, us)
             score == FuzzyScore(ud[i].k, us[j].k)
         IN  IF RatGT(score, << 7, 10 >>)
             THEN C19_StatedPass(Append(ms, ReleaseMatch(ud[i].v, us[j].v, score, "fuzzy")),
                                 ud, WithoutItem(us, j), i + 1)
             ELSE C19_StatedPass(ms, ud, us, i + 1)

\* C19: for each known title the exact pass left, in input order, the fuzzy
\* pass takes among the service titles not yet matched the first one with
\* the highest combined score, and emits a fuzzy match with that score if and
\* only if the score is above 0.7; the returned list is the exact matches
\* followed by these.
C19_FuzzySelection ==
    Returned =>
        LET exact == ExactPass(normalized_discogs, normalized_service)
        IN  matches = C19_StatedPass(exact, UnmatchedDiscogs(normalized_discogs, exact),
                                     UnmatchedService(normalized_service, exact), 1)

\* C20: in the returned list every exact match precedes every fuzzy match,
\* there is one exact match for each normalized known title that is also a
\* normalized service title (and no other exact match), and no title of an
\* exact match is a title of a fuzzy match.
C20_ExactThenFuzzy ==
    Returned =>
        LET exact == { i \in DOMAIN matches : matches[i].match_type = "exact" }
            fuzzy == { i \in DOMAIN matches : matches[i].match_type = "fuzzy" }
            known   == { normalize_title(t) : t \in Range(discogs_releases) }
            service == { normalize_title(t) : t \in Range(service_releases) }
        IN  /\ exact \cup fuzzy = DOMAIN matches
            /\ \A i \in exact, j \in fuzzy : i < j
            /\ \A key \in known \cap service :
                   Cardinality({ i \in exact :
                       normalize_title(matches[i].discogs_title) = key }) = 1
            /\ \A i \in exact :
                   /\ normalize_title(matches[i].discogs_title) \in known \cap service
                   /\ normalize_title(matches[i].service_title)
                          = normalize_title(matches[i].discogs_title)
            /\ \A i \in exact, j \in fuzzy :
                   /\ matches[i].discogs_title # matches[j].discogs_title
                   /\ matches[i].service_title # matches[j].service_title

\* C20, its case: the returned list holds an exact match and, after it, a
\* fuzzy match, for a known list that names the fuzzy one first.
C20_Witness ==
    /\ Returned
    /\ Len(matches) = 2
    /\ matches[1].match_type = "exact"
    /\ matches[2].match_type = "fuzzy"
    /\ discogs_releases[1] = matches[2].discogs_title

\* the title that comes last in the list among those with the normalized
\* form of title
LastOfForm(releases, title) ==
    releases[Max({ i \in DOMAIN releases :
                     normalize_title(releases[i]) = normalize_title(title) })]

\* C21: of the titles of one input list that share a normalized form, only
\* the one that comes last in the list appears in a returned match, on the
\* known side and on the service side.
C21_LastWins ==
    Returned =>
        \A i \in DOMAIN matches :
            /\ matches[i].discogs_title = LastOfForm(discogs_releases, matches[i].discogs_title)
            /\ matches[i].service_title = LastOfForm(service_releases, matches[i].service_title)

\* C21, its case: a returned match whose known title and whose service title
\* each come after a different title of the same normalized form.
C21_Witness ==
    /\ Returned
    /\ \E i \in DOMAIN matches :
           /\ \E k \in Range(discogs_releases) :
                  /\ k # matches[i].discogs_title
                  /\ normalize_title(k) = normalize_title(matches[i].discogs_title)
           /\ \E s \in Range(service_releases) :
                  /\ s # matches[i].service_title
                  /\ normalize_title(s) = normalize_title(matches[i].service_title)

\* the year term C22 gives for a release date and a target year
C22_StatedYear(release_date, year) ==
    IF year = 0 \/ ~Truthy(release_date) \/ ~IsIntLiteral(FirstDashField(release_date))
    THEN 0
    ELSE LET diff == Abs(year - IntValue(FirstDashField(release_date)))
         IN  CASE diff = 0 -> 3
               [] diff \in 1..2 -> 1
               [] diff \in 3..10 -> 0
               [] OTHER -> -2

\* what the target year adds to the score of the candidate at position i
YearTermAt(i) ==
    ScoreAt(i) - _calculate_match_score(candidates[i], target_artist_lower,
                                        target_album_lower, 0)

\* C22: the year adds 3 to the score for the same year, 1 for a difference of
\* 1 or 2, 0 for 3 to 10 and -2 for more than 10; it adds 0, and nothing is
\* raised, when there is no target year, no release date, or a release date
\* whose leading component is no integer.
C22_YearTerm ==
    /\ \A i \in DOMAIN candidates :
           PassesArtistGate(candidates[i]) =>
               YearTermAt(i) = C22_StatedYear(candidates[i].release_date, target_year)
    /\ s_pc = "raised" => \E i \in DOMAIN candidates : candidates[i].artist_name = None
    /\ (s_pc = "returned" /\ Len(candidates) = 1 /\ PassesArtistGate(candidates[1])) =>
           best_score = Max({ 0, _calculate_match_score(candidates[1], target_artist_lower,
                                                        target_album_lower, 0)
                                 + C22_StatedYear(candidates[1].release_date, target_year) })

\* C22, its case: a returned call whose candidate was released 11 years from
\* the target year and lost 2 for it.
C22_Witness ==
    /\ s_pc = "returned"
    /\ Len(candidates) = 1
    /\ candidates[1].release_date = <<"2","0","0","0","-","0","6">>
    /\ target_year = 2011
    /\ YearTermAt(1) = -2
    /\ best_score = 10 + 10 + 3 - 2 + 5

\* C23: for every candidate the Apple Music adapter makes, _detect_compilation
\* takes the candidate's service_name for Apple Music's, and a truthy
\* isCompilation flag in the payload's attributes alone makes the candidate a
\* detected compilation.
C23_AppleMusicFlag ==
    (w_service = "Apple Music" /\ w_pc # "call") =>
        \A i \in DOMAIN candidates :
            /\ IsAppleMusic(candidates[i].service_name)
            /\ ( GetFlag(search_results[i].attributes.isCompilation, "False") \in { "True", "1" }
                   => _detect_compilation(candidates[i]) )

\* the stop words the NormalizedString contract lists for titles
C24_StopWords == skip_words \ { <<"&">> }

\* the characters a NormalizedString may hold: lowercase letters, digits, space
C24_Allowed == Range(LowerLetters) \cup Range(Digits) \cup { " " }

C24_OnlyAllowed(s) == \A k \in DOMAIN s : s[k] \in C24_Allowed

\* no leading, trailing or doubled space
C24_SingleInteriorSpaces(s) ==
    /\ s # << >> => (s[1] # " " /\ s[Len(s)] # " ")
    /\ \A k \in 1..(Len(s) - 1) : ~(s[k] = " " /\ s[k + 1] = " ")

C24_NoStopWord(s) == \A k \in DOMAIN Split(s) : Split(s)[k] \notin C24_StopWords

\* C24: every string normalize_title returns holds only lowercase letters,
\* digits and single interior spaces (no punctuation, no leading, trailing or
\* doubled whitespace), and none of its space-separated tokens is one of the
\* thirteen stop words.
C24_NormalizedString ==
    n_pc = "title" =>
        /\ C24_OnlyAllowed(n_out)
        /\ C24_SingleInteriorSpaces(n_out)
        /\ C24_NoStopWord(n_out)

\* the matcher returned None or one of the candidates, and the wrapper returned
\* None or the search-result record that candidate was made from
C25_ReturnsRecord ==
    /\ (w_pc # "call" /\ s_pc = "returned") => best_match \in 0..Len(candidates)
    /\ w_pc = "returned" =>
           IF best_match = 0 THEN w_result = None
           ELSE w_result = search_results[best_match]

\* a step of the call leaves the payloads alone and, once the candidates are
\* made, the candidate list and every field of every candidate
C25_Frame ==
    /\ search_results' = search_results
    /\ w_pc # "call" => candidates' = candidates

\* C25: find_best_match returns None or one of the input candidates, the
\* service wrapper returns exactly that candidate's original search-result
\* record, and the call leaves the candidate list, the candidates' fields and
\* the raw payloads unchanged.
C25_PassThrough == [][C25_Frame]_vars /\ []C25_ReturnsRecord

\* the second of two different records is the best match and is what the
\* wrapper returned
C25_Witness ==
    /\ w_pc = "returned"
    /\ best_match = 2
    /\ search_results[1] # search_results[2]
    /\ w_result = search_results[2]
    /\ candidates[2].data = w_result

\* the candidate's artist and title, lower-cased, are the lower-cased targets
C26_ExactArtistAndTitle(candidate) ==
    /\ candidate.artist_name # None
    /\ candidate.album_name # None
    /\ Lower(candidate.artist_name) = target_artist_lower
    /\ Lower(candidate.album_name) = target_album_lower

\* C26: a candidate whose lower-cased artist and title equal the targets
\* scores strictly more than 0 whatever its album type, compilation flag,
\* title keywords and release year, and find_best_match does not return None
\* when the list holds such a candidate.
C26_ExactIsPositive ==
    /\ \A i \in DOMAIN candidates :
           ( /\ C26_ExactArtistAndTitle(candidates[i])
             /\ ~ScoreRaises(candidates[i], target_artist_lower) )
               => ScoreAt(i) > 0
    /\ (s_pc = "returned" /\ \E i \in DOMAIN candidates :
                                 C26_ExactArtistAndTitle(candidates[i]))
           => best_match # 0

\* the exact match with every penalty (a single flagged as a compilation, a
\* compilation keyword and a reissue keyword in the title, a year more than
\* ten away) was scored 4 and returned
C26_Witness ==
    /\ s_pc = "returned"
    /\ best_match # 0
    /\ C26_ExactArtistAndTitle(candidates[best_match])
    /\ candidates[best_match].album_name = T_x_hits_bonus
    /\ Lower(candidates[best_match].album_type) = S_single
    /\ candidates[best_match].is_compilation = "True"
    /\ ScoreAt(best_match) = 4
    /\ best_score = 4

\* C27: a candidate whose artist_name is the empty string, as the adapters
\* make it for a search result with no artist, is rejected by the artist gate
\* (its score is 0) and is not what find_best_match returns, when the target
\* artist is not empty.
C27_EmptyArtistRejected ==
    (w_pc # "call" /\ target_artist # << >>) =>
        \A i \in DOMAIN candidates :
            candidates[i].artist_name = << >> =>
                /\ ScoreAt(i) = 0
                /\ s_pc = "returned" => best_match # i

\* the distinct normalized forms of the known titles
C28_KnownForms == { normalize_title(discogs_releases[i]) : i \in DOMAIN discogs_releases }

\* C28: match_releases returns no more matches than there are distinct
\* normalized known titles, so no more than len(known_titles); in
\* verify_artist_with_releases match_percentage is at most 1 and the
\* confidence score lies in [0, 1] and is 0 exactly when there is no match.
C28_ScoreInUnitInterval ==
    /\ Returned =>
           /\ Len(matches) <= Cardinality(C28_KnownForms)
           /\ Cardinality(C28_KnownForms) <= Len(discogs_releases)
    /\ m_pc = "verified" =>
           /\ Len(matches) <= Len(discogs_releases)
           /\ m_confidence.score[2] > 0
           /\ m_confidence.score[1] >= 0
           /\ m_confidence.score[1] <= m_confidence.score[2]
           /\ (m_confidence.score[1] = 0 <=> matches = << >>)

\* three known titles of two normalized forms, both forms matched in the
\* second pass, and a score strictly between 0 and 1
C28_Witness ==
    /\ m_pc = "verified"
    /\ Len(discogs_releases) = 3
    /\ Cardinality(C28_KnownForms) = 2
    /\ Len(matches) = 2
    /\ \A i \in DOMAIN matches : matches[i].match_type = "fuzzy"
    /\ m_confidence.score[1] > 0
    /\ m_confidence.score[1] < m_confidence.score[2]

\* C29: for total_known > 0, calculate_confidence returns the level LOW
\* exactly when matches is empty; one match of any score yields MEDIUM or
\* HIGH, however large total_known is.
C29_LowIffNoMatch ==
    (c_pc = "done" /\ c_total > 0) =>
        /\ c_result.level = "LOW" <=> c_matches = << >>
        /\ Len(c_matches) = 1 => c_result.level \in { "MEDIUM", "HIGH" }

\* one match with a score below 1 among the largest number of known titles,
\* where the percentage alone is below 0.3: MEDIUM
C29_Witness ==
    /\ c_pc = "done"
    /\ c_total = MaxTotal
    /\ Len(c_matches) = 1
    /\ RatGT(<< 1, 1 >>, c_matches[1].match_score)
    /\ 10 * Len(c_matches) < 3 * c_total
    /\ c_result.level = "MEDIUM"

\* C30: with the default filter configuration normalize_album_name maps two
\* album names that differ only in 'and' against '&' between the same words
\* to the same normalized string.
C30_AndIsAmpersand ==
    r_pc = "normalized" =>
        \A left, right \in AlbumWords :
            { r_discogs_title, r_apple_music_title }
                    = { WithAnd(left, right), WithAmpersand(left, right) }
                => r_discogs_normalized = r_apple_music_normalized

====
